---------------------------- MODULE Spec2Model ----------------------------
(***************************************************************************)
(* Model of the management API: five FastAPI handlers (src/main.py) that   *)
(* proxy an upstream email-marketing API through four httpx helpers        *)
(* (src/utils.py).  One inbound request is followed from its arrival to    *)
(* its response; every await of an upstream call is a separate step.       *)
(*                                                                         *)
(* Strings that the program concatenates are modelled as sequences of      *)
(* pieces (a URL is the sequence of its parts, a path segment the sequence *)
(* of its characters, an error detail the sequence prefix, text).          *)
(***************************************************************************)
EXTENDS Integers, Sequences, FiniteSets, TLC

VARIABLES
    base,       \* EXTERNAL_BASE_URL, fixed for the life of the process
    coerce,     \* the installed pydantic coerces a JSON number to str
    strDetail,  \* the installed starlette renders str(HTTPException) as "code: detail"
    handler,    \* the handler serving the current request ("none" when idle)
    pc,         \* "idle", "await1", "await2", "done"
    request,    \* the request as sent: raw path segments and body
    inflight,   \* upstream calls issued and not yet answered
    calls,      \* upstream calls issued for the current request, in order
    replies,    \* upstream outcomes received for the current request, in order
    first,      \* result of the first upstream call (client_data / list_data)
    response    \* the response given to the caller

vars == <<base, coerce, strDetail, handler, pc, request, inflight, calls,
          replies, first, response>>

---------------------------------------------------------------------------
(* Bounds *)

MaxSegLen == 5      \* longest e-mail path segment, in characters
MaxListLen == 1     \* longest list-id path segment in the URL specification

---------------------------------------------------------------------------
(* Path segments and percent-decoding *)

HexDigits == {"0", "2", "4", "5"}
Chars == {"x", "%"} \cup HexDigits

\* chr(int(d1 d2, 16)) for the hex digits of the model
HexChar(d1, d2) ==
    CASE d1 = "0" /\ d2 = "0" -> "NUL"
      [] d1 = "0" /\ d2 = "2" -> "STX"
      [] d1 = "0" /\ d2 = "4" -> "EOT"
      [] d1 = "0" /\ d2 = "5" -> "ENQ"
      [] d1 = "2" /\ d2 = "0" -> " "
      [] d1 = "2" /\ d2 = "2" -> "\""
      [] d1 = "2" /\ d2 = "4" -> "$"
      [] d1 = "2" /\ d2 = "5" -> "%"
      [] d1 = "4" /\ d2 = "0" -> "@"
      [] d1 = "4" /\ d2 = "2" -> "B"
      [] d1 = "4" /\ d2 = "4" -> "D"
      [] d1 = "4" /\ d2 = "5" -> "E"
      [] d1 = "5" /\ d2 = "0" -> "P"
      [] d1 = "5" /\ d2 = "2" -> "R"
      [] d1 = "5" /\ d2 = "4" -> "T"
      [] d1 = "5" /\ d2 = "5" -> "U"

\* urllib.parse.unquote: every %XX with two hex digits becomes the character
\* it encodes, anything else is copied
RECURSIVE unquote(_)
unquote(s) ==
    IF s = <<>> THEN <<>>
    ELSE IF /\ Head(s) = "%"
            /\ Len(s) >= 3
            /\ s[2] \in HexDigits
            /\ s[3] \in HexDigits
         THEN <<HexChar(s[2], s[3])>> \o unquote(SubSeq(s, 4, Len(s)))
         ELSE <<Head(s)>> \o unquote(Tail(s))

\* The value a handler receives for a path parameter: the framework has
\* already percent-decoded the request path
PathParam(seg) == unquote(seg)

RECURSIVE SegsOfLen(_)
SegsOfLen(n) ==
    IF n = 0 THEN {<<>>}
    ELSE {<<c>> \o s : c \in Chars, s \in SegsOfLen(n - 1)}

SegsUpTo(n) == UNION {SegsOfLen(k) : k \in 1..n}

\* Path segments of the requests of the main specification
SampleSegs == {<<"x">>, <<"x", "%", "4", "0", "x">>}

---------------------------------------------------------------------------
(* Upstream URLs *)

BaseUrls == {"https://api.createsend.com/api/v3.3",
             "https://api.createsend.com/api/v3.3/"}

\* f"{EXTERNAL_BASE_URL}/<path>": the join used by every handler but one
Join(path) == <<base, "/">> \o path

client_url(id) == Join(<<"clients/">> \o id \o <<".json">>)
lists_url(id) == Join(<<"clients/">> \o id \o <<"/lists.json">>)
list_url(id) == Join(<<"lists/">> \o id \o <<".json">>)
subscribers_url(id) ==
    Join(<<"lists/">> \o id
        \o <<"/active.json?&includetrackingpreference=true&includesmspreference=true">>)
add_url(id) == Join(<<"subscribers/">> \o id \o <<".json">>)
remove_url(emailList, email) ==
    Join(<<"subscribers/">> \o emailList \o <<".json?email=">> \o email)
update_url(emailList, email) ==
    <<base>> \o <<"subscribers/">> \o emailList \o <<".json?email=">> \o email

---------------------------------------------------------------------------
(* Upstream outcomes and JSON decoding *)

Statuses == {200, 204, 302, 400, 404, 500}

T_Empty == ""
T_Plain == "Not Found"
T_Obj == "{}"
T_Arr == "[]"
T_Basic == "{\"BasicDetails\":{\"ClientID\":\"c\"}}"
T_Billing == "{\"BillingDetails\":{\"Currency\":\"USD\"}}"
T_Both == "{\"BasicDetails\":{\"ClientID\":\"c\"},\"BillingDetails\":{\"Currency\":\"USD\"}}"
T_BasicNull == "{\"BasicDetails\":null}"
T_Lists == "[{\"ListID\":\"l\"}]"
T_Error == "{\"Code\":101,\"Message\":\"Invalid\"}"

Texts == {T_Empty, T_Plain, T_Obj, T_Arr, T_Basic, T_Billing, T_Both,
          T_BasicNull, T_Lists, T_Error}

\* What the upstream does with one call: the transport fails, or a response
\* with a status and a raw body text arrives
Outcomes ==
    {[kind |-> "transport", status |-> 0, text |-> T_Empty]}
        \cup {[kind |-> "response", status |-> s, text |-> t] :
                s \in Statuses, t \in Texts}

NoItems == [k \in {} |-> ""]
Undecoded == [type |-> "none", items |-> NoItems]

\* response.json(): a dict or a list whose members are kept as their JSON
\* text, keyed by name (dict) or position (list); the other texts do not
\* decode
json(text) ==
    CASE text = T_Obj -> [type |-> "dict", items |-> NoItems]
      [] text = T_Arr -> [type |-> "list", items |-> NoItems]
      [] text = T_Basic ->
            [type |-> "dict",
             items |-> [k \in {"BasicDetails"} |-> "{\"ClientID\":\"c\"}"]]
      [] text = T_Billing ->
            [type |-> "dict",
             items |-> [k \in {"BillingDetails"} |-> "{\"Currency\":\"USD\"}"]]
      [] text = T_Both ->
            [type |-> "dict",
             items |-> [k \in {"BasicDetails", "BillingDetails"} |->
                          IF k = "BasicDetails" THEN "{\"ClientID\":\"c\"}"
                          ELSE "{\"Currency\":\"USD\"}"]]
      [] text = T_BasicNull ->
            [type |-> "dict", items |-> [k \in {"BasicDetails"} |-> "null"]]
      [] text = T_Lists ->
            [type |-> "list", items |-> [k \in {"0"} |-> "{\"ListID\":\"l\"}"]]
      [] text = T_Error ->
            [type |-> "dict",
             items |-> [k \in {"Code", "Message"} |->
                          IF k = "Code" THEN "101" ELSE "\"Invalid\""]]
      [] OTHER -> Undecoded

\* response.json() raises for a body that is not JSON
decodes(text) == json(text).type # "none"

\* response.raise_for_status() raises unless the status is 2xx
is_success(status) == status \div 100 = 2

\* Mutant: d.get(key) or default, which also replaces a null member
dict_get_or(d, key, default) ==
    IF key \in DOMAIN d.items /\ d.items[key] # "null" THEN d.items[key] ELSE default

\* dict.get(key, default)
dict_get(d, key, default) ==
    IF key \in DOMAIN d.items THEN d.items[key] ELSE default

---------------------------------------------------------------------------
(* Exceptions *)

Unexpected == "An unexpected error occurred: "

HTTPException(status_code, detail) ==
    [cls |-> "HTTPException", status_code |-> status_code, detail |-> detail]
HTTPStatusError(status_code, text) ==
    [cls |-> "HTTPStatusError", status_code |-> status_code, detail |-> <<text>>]
OtherError(cls, message) ==
    [cls |-> cls, status_code |-> 0, detail |-> <<message>>]
NoExc == [cls |-> "none", status_code |-> 0, detail |-> <<>>]

ConnectError == OtherError("ConnectError", "All connection attempts failed")
JSONDecodeError ==
    OtherError("JSONDecodeError", "Expecting value: line 1 column 1 (char 0)")
AttributeError ==
    OtherError("AttributeError", "'list' object has no attribute 'get'")

\* str(exc): the message of an ordinary exception; for an HTTPException
\* "code: detail" or the empty string, by the installed starlette
str(exc) ==
    IF exc.cls = "HTTPException"
    THEN IF strDetail THEN <<ToString(exc.status_code), ": ">> \o exc.detail
         ELSE <<>>
    ELSE exc.detail

\* What an awaited call gives back: a value, or a raised exception
Return(value) == [raised |-> FALSE, exc |-> NoExc, value |-> value]
Raise(exc) == [raised |-> TRUE, exc |-> exc, value |-> Undecoded]

\* The response object that api_delete and api_put return undecoded
ResponseObject == [type |-> "Response", items |-> NoItems]

---------------------------------------------------------------------------
(* Upstream HTTP client (src/utils.py) *)

\* The body of the try block of a helper: what client.<method>, then
\* raise_for_status, then (when the helper decodes) response.json() raise
ClientTry(o, decoding) ==
    IF o.kind = "transport" THEN ConnectError
    ELSE IF ~is_success(o.status) THEN HTTPStatusError(o.status, o.text)
    ELSE IF decoding /\ ~decodes(o.text) THEN JSONDecodeError
    ELSE NoExc

\* The two except clauses of a helper
ClientExcept(exc, prefix) ==
    IF exc.cls = "HTTPStatusError"
    THEN HTTPException(exc.status_code, <<prefix>> \o exc.detail)
    ELSE HTTPException(500, <<Unexpected>> \o str(exc))

api_fetch(o) ==
    LET exc == ClientTry(o, TRUE) IN
    IF exc.cls = "none" THEN Return(json(o.text))
    ELSE Raise(ClientExcept(exc, "Error fetching data: "))

api_post(o) ==
    LET exc == ClientTry(o, TRUE) IN
    IF exc.cls = "none" THEN Return(json(o.text))
    ELSE Raise(ClientExcept(exc, "Error posting data: "))

api_delete(o) ==
    LET exc == ClientTry(o, FALSE) IN
    IF exc.cls = "none" THEN Return(ResponseObject)
    ELSE Raise(ClientExcept(exc, "Error deleting data: "))

\* Mutant: api_put decodes the body, as its docstring says
api_put_json(o) ==
    LET exc == ClientTry(o, TRUE) IN
    IF exc.cls = "none" THEN Return(json(o.text))
    ELSE Raise(ClientExcept(exc, "Error updating data: "))

api_put(o) ==
    LET exc == ClientTry(o, FALSE) IN
    IF exc.cls = "none" THEN Return(ResponseObject)
    ELSE Raise(ClientExcept(exc, "Error updating data: "))

---------------------------------------------------------------------------
(* Request schema (Subscriber) *)

Fields == <<"EmailAddress", "Name", "MobileNumber", "CustomFields",
            "Resubscribe", "RestartSubscriptionBasedAutoresponders",
            "ConsentToTrack", "ConsentToSendSms">>
FieldSet == {Fields[i] : i \in 1..Len(Fields)}

\* Mutant: EmailAddress declared with a default
Required_EmailOptional == {"ConsentToTrack"}

\* The fields declared without a default
Required == {"EmailAddress", "ConsentToTrack"}

FieldType(f) ==
    CASE f \in {"Resubscribe", "RestartSubscriptionBasedAutoresponders"} -> "bool"
      [] f = "CustomFields" -> "list"
      [] OTHER -> "str"

Default(f) ==
    CASE f \in {"Resubscribe", "RestartSubscriptionBasedAutoresponders"} -> "False"
      [] f = "CustomFields" -> "[]"
      [] f = "ConsentToSendSms" -> "\"No\""
      [] OTHER -> "None"

\* A body gives each field a JSON value of one of these kinds, or omits it
Kinds == {"absent", "str", "num", "obj"}

\* Mutant: the fields are untyped, only their presence is checked
FieldOk_Untyped(b, f) == b[f] = "absent" => f \notin Required

\* Whether the schema accepts the value a body gives a field
FieldOk(b, f) ==
    CASE b[f] = "absent" -> f \notin Required
      [] b[f] = "num" -> FieldType(f) = "str" /\ coerce
      [] b[f] = "obj" -> FALSE
      [] OTHER -> b[f] = FieldType(f)

\* The invalid fields of a body, in declaration order
Invalid(b) == SelectSeq(Fields, LAMBDA f : ~FieldOk(b, f))

\* subscriber.dict(): every field, an omitted one with its default
dict(b) == [f \in FieldSet |-> IF b[f] = "absent" THEN Default(f) ELSE "\"s\""]

NoSubscriber == [f \in FieldSet |-> "absent"]

\* The bodies a caller sends
SubscriberBodies ==
    {[f \in FieldSet |->
        CASE f = "EmailAddress" -> e
          [] f = "Name" -> n
          [] f = "ConsentToTrack" -> c
          [] OTHER -> "absent"] :
        e \in Kinds, n \in {"absent", "str", "obj"}, c \in Kinds}

---------------------------------------------------------------------------
(* Responses *)

NoResponse == [kind |-> "none", status |-> 0, detail |-> <<>>, body |-> Undecoded]

\* A handler's return value, sent with the default status
OkResponse(body) == [kind |-> "ok", status |-> 200, detail |-> <<>>, body |-> body]

\* An exception leaves a handler.  An HTTPException becomes the response with
\* its status and {"detail": detail}; any other exception is unhandled and
\* the server answers with its bare Internal Server Error
ErrorResponse(exc) ==
    IF exc.cls = "HTTPException"
    THEN [kind |-> "error", status |-> exc.status_code, detail |-> exc.detail,
          body |-> Undecoded]
    ELSE [kind |-> "crash", status |-> 500, detail |-> <<"Internal Server Error">>,
          body |-> Undecoded]

\* A body the schema rejects never reaches the handler: the framework answers
\* with the list of the invalid fields
RequestValidationError(b) ==
    [kind |-> "error", status |-> 422, detail |-> Invalid(b), body |-> Undecoded]

\* Mutant: the handler has no catch-all clause
HandlerExcept_NoCatchAll(exc, prefix) ==
    IF exc.cls = "HTTPStatusError"
    THEN HTTPException(exc.status_code, <<prefix>> \o exc.detail)
    ELSE exc

\* The two except clauses of a handler
HandlerExcept(exc, prefix) ==
    IF exc.cls = "HTTPStatusError"
    THEN HTTPException(exc.status_code, <<prefix>> \o exc.detail)
    ELSE HTTPException(500, <<Unexpected>> \o str(exc))

Confirmation == [message |-> "Subscriber removed successfully", status |-> 200]

---------------------------------------------------------------------------
(* State *)

Call(method, url, payload) == [method |-> method, url |-> url, payload |-> payload]
NoPayload == [f \in FieldSet |-> "absent"]

Init ==
    /\ base \in BaseUrls
    /\ coerce \in BOOLEAN
    /\ strDetail \in BOOLEAN
    /\ handler = "none"
    /\ pc = "idle"
    /\ request = [id |-> <<>>, email |-> <<>>, subscriber |-> NoSubscriber]
    /\ inflight = {}
    /\ calls = <<>>
    /\ replies = <<>>
    /\ first = Undecoded
    /\ response = NoResponse

\* A request arrives and is routed to handler h
Arrive(h, id, email, subscriber) ==
    /\ pc = "idle"
    /\ handler' = h
    /\ request' = [id |-> id, email |-> email, subscriber |-> subscriber]
    /\ replies' = <<>>
    /\ first' = Undecoded
    /\ UNCHANGED <<base, coerce, strDetail>>

\* await client.<method>(url, ...): the call goes out and the handler waits
Issue(call, next) ==
    /\ inflight' = {c \in inflight : \A i \in 1..Len(replies') : calls[i] # c}
                        \cup {call}
    /\ calls' = Append(calls, call)
    /\ pc' = next
    /\ response' = response

\* The handler returns or raises: the caller gets its response
Respond(r) ==
    /\ inflight' = {}
    /\ calls' = calls
    /\ pc' = "done"
    /\ response' = r

\* The upstream answers the call the handler waits for
Answer(h, at, o) ==
    /\ pc = at
    /\ handler = h
    /\ inflight # {}
    /\ replies' = Append(replies, o)
    /\ UNCHANGED <<base, coerce, strDetail, handler, request>>

---------------------------------------------------------------------------
(* GET /clients/{id} *)

\* Mutant: both fetches are started together (a gather)
get_clients_start_gather(id) ==
    /\ Arrive("get_clients", id, <<>>, NoSubscriber)
    /\ inflight' = {Call("GET", client_url(PathParam(id)), NoPayload),
                    Call("GET", lists_url(PathParam(id)), NoPayload)}
    /\ calls' = <<Call("GET", client_url(PathParam(id)), NoPayload),
                  Call("GET", lists_url(PathParam(id)), NoPayload)>>
    /\ pc' = "await1"
    /\ response' = response

get_clients_start(id) ==
    /\ Arrive("get_clients", id, <<>>, NoSubscriber)
    /\ Issue(Call("GET", client_url(PathParam(id)), NoPayload), "await1")

\* Mutant: a failed first fetch is tried again
get_clients_client_data_retry(o) ==
    /\ Answer("get_clients", "await1", o)
    /\ LET r == api_fetch(o) IN
       IF r.raised
       THEN /\ IF Len(calls) < 2
               THEN Issue(Call("GET", client_url(PathParam(request.id)), NoPayload),
                          "await1")
               ELSE Respond(ErrorResponse(HandlerExcept(r.exc,
                                                        "Error fetching data: ")))
            /\ first' = first
       ELSE /\ Issue(Call("GET", lists_url(PathParam(request.id)), NoPayload),
                     "await2")
            /\ first' = r.value

get_clients_client_data(o) ==
    /\ Answer("get_clients", "await1", o)
    /\ LET r == api_fetch(o) IN
       IF r.raised
       THEN /\ Respond(ErrorResponse(HandlerExcept(r.exc, "Error fetching data: ")))
            /\ first' = first
       ELSE /\ Issue(Call("GET", lists_url(PathParam(request.id)), NoPayload),
                     "await2")
            /\ first' = r.value

get_clients_lists_data(o) ==
    /\ Answer("get_clients", "await2", o)
    /\ first' = first
    /\ LET r == api_fetch(o) IN
       IF r.raised
       THEN Respond(ErrorResponse(HandlerExcept(r.exc, "Error fetching data: ")))
       ELSE IF first.type # "dict"
       THEN Respond(ErrorResponse(HandlerExcept(AttributeError,
                                                "Error fetching data: ")))
       ELSE Respond(OkResponse(
                [basic_details |-> dict_get(first, "BasicDetails", "{}"),
                 billing_details |-> dict_get(first, "BillingDetails", "{}"),
                 lists |-> r.value]))

---------------------------------------------------------------------------
(* GET /lists/{id} *)

get_list_details_start(id) ==
    /\ Arrive("get_list_details", id, <<>>, NoSubscriber)
    /\ Issue(Call("GET", list_url(PathParam(id)), NoPayload), "await1")

get_list_details_list_data(o) ==
    /\ Answer("get_list_details", "await1", o)
    /\ LET r == api_fetch(o) IN
       IF r.raised
       THEN /\ Respond(ErrorResponse(HandlerExcept(r.exc, "Error fetching data: ")))
            /\ first' = first
       ELSE /\ Issue(Call("GET", subscribers_url(PathParam(request.id)), NoPayload),
                     "await2")
            /\ first' = r.value

get_list_details_subscribers_data(o) ==
    /\ Answer("get_list_details", "await2", o)
    /\ first' = first
    /\ LET r == api_fetch(o) IN
       IF r.raised
       THEN Respond(ErrorResponse(HandlerExcept(r.exc, "Error fetching data: ")))
       ELSE Respond(OkResponse([details |-> first, active_subscribers |-> r.value]))

---------------------------------------------------------------------------
(* POST /subscribers/{id} *)

add_active_subscriber_start(id, subscriber) ==
    /\ Arrive("add_active_subscriber", id, <<>>, subscriber)
    /\ IF Invalid(subscriber) # <<>>
       THEN Respond(RequestValidationError(subscriber))
       ELSE Issue(Call("POST", add_url(PathParam(id)), dict(subscriber)), "await1")

add_active_subscriber_res(o) ==
    /\ Answer("add_active_subscriber", "await1", o)
    /\ first' = first
    /\ LET r == api_post(o) IN
       IF r.raised
       THEN Respond(ErrorResponse(HandlerExcept(r.exc, "Error: ")))
       ELSE Respond(OkResponse(r.value))

---------------------------------------------------------------------------
(* DELETE /subscribers/{emailList}/{email} *)

remove_active_subscriber_start(emailList, email) ==
    /\ Arrive("remove_active_subscriber", emailList, email, NoSubscriber)
    /\ LET decoded_email_list == unquote(PathParam(emailList))
           decoded_email == unquote(PathParam(email))
       IN Issue(Call("DELETE", remove_url(decoded_email_list, decoded_email),
                     NoPayload), "await1")

remove_active_subscriber_res(o) ==
    /\ Answer("remove_active_subscriber", "await1", o)
    /\ first' = first
    /\ LET r == api_delete(o) IN
       IF r.raised
       THEN Respond(ErrorResponse(HandlerExcept(r.exc, "Error removing subscriber: ")))
       ELSE Respond(OkResponse(Confirmation))

---------------------------------------------------------------------------
(* PUT /subscribers/{emailList}/{email} *)

update_active_subscriber_start(emailList, email, subscriber) ==
    /\ Arrive("update_active_subscriber", emailList, email, subscriber)
    /\ IF Invalid(subscriber) # <<>>
       THEN Respond(RequestValidationError(subscriber))
       ELSE LET decoded_email_list == unquote(PathParam(emailList))
                decoded_email == unquote(PathParam(email))
            IN Issue(Call("PUT", update_url(decoded_email_list, decoded_email),
                          dict(subscriber)), "await1")

update_active_subscriber_res(o) ==
    /\ Answer("update_active_subscriber", "await1", o)
    /\ first' = first
    /\ LET r == api_put(o) IN
       IF r.raised
       THEN Respond(ErrorResponse(HandlerExcept(r.exc, "Error updating subscriber: ")))
       ELSE Respond(OkResponse(Confirmation))

---------------------------------------------------------------------------
(* The response is delivered; the service holds nothing of the request *)

Deliver ==
    /\ pc = "done"
    /\ pc' = "idle"
    /\ handler' = "none"
    /\ request' = [id |-> <<>>, email |-> <<>>, subscriber |-> NoSubscriber]
    /\ inflight' = {}
    /\ calls' = <<>>
    /\ replies' = <<>>
    /\ first' = Undecoded
    /\ response' = NoResponse
    /\ UNCHANGED <<base, coerce, strDetail>>

Next ==
    \/ \E id \in SampleSegs : get_clients_start(id)
    \/ \E o \in Outcomes : get_clients_client_data(o)
    \/ \E o \in Outcomes : get_clients_lists_data(o)
    \/ \E id \in SampleSegs : get_list_details_start(id)
    \/ \E o \in Outcomes : get_list_details_list_data(o)
    \/ \E o \in Outcomes : get_list_details_subscribers_data(o)
    \/ \E id \in SampleSegs, b \in SubscriberBodies :
            add_active_subscriber_start(id, b)
    \/ \E o \in Outcomes : add_active_subscriber_res(o)
    \/ \E l \in SampleSegs, e \in SampleSegs : remove_active_subscriber_start(l, e)
    \/ \E o \in Outcomes : remove_active_subscriber_res(o)
    \/ \E l \in SampleSegs, e \in SampleSegs, b \in SubscriberBodies :
            update_active_subscriber_start(l, e, b)
    \/ \E o \in Outcomes : update_active_subscriber_res(o)
    \/ Deliver

Spec == Init /\ [][Next]_vars

\* The URL-building steps of the two handlers that decode their path
\* parameters, over every path segment up to the bounds
NextUrl ==
    \/ /\ pc = "idle"
       /\ \E l \in SegsUpTo(MaxListLen), e \in SegsUpTo(MaxSegLen) :
                remove_active_subscriber_start(l, e)
    \/ /\ pc = "idle"
       /\ \E l \in SegsUpTo(MaxListLen), e \in SegsUpTo(MaxSegLen) :
                update_active_subscriber_start(l, e, [NoSubscriber EXCEPT
                    !["EmailAddress"] = "str", !["ConsentToTrack"] = "str"])

SpecUrl == Init /\ [][NextUrl]_vars

---------------------------------------------------------------------------
(* Vocabulary of the claims *)

TwoCallHandlers == {"get_clients", "get_list_details"}
DecodingHandlers == TwoCallHandlers \cup {"add_active_subscriber"}
DecodingPathHandlers == {"remove_active_subscriber", "update_active_subscriber"}
BodyHandlers == {"add_active_subscriber", "update_active_subscriber"}

Is2xx(o) == o.kind = "response" /\ o.status \in 200..299
IsNon2xx(o) == o.kind = "response" /\ o.status \notin 200..299
Names(detail, text) == \E j \in 1..Len(detail) : detail[j] = text

---------------------------------------------------------------------------
(* C1 *)

\* C1: whenever an upstream call of a request answers with a non-2xx status,
\* the caller receives an error response with that same status code and a
\* detail containing the upstream's raw body text.
C1_StatusMirrored ==
    \A i \in 1..Len(replies) :
        IsNon2xx(replies[i]) =>
            /\ pc = "done"
            /\ response.kind = "error"
            /\ response.status = replies[i].status
            /\ Names(response.detail, replies[i].text)

---------------------------------------------------------------------------
(* C2 *)

---------------------------------------------------------------------------
(* C3 *)

\* C3: an AddSubscriber request whose body is missing EmailAddress or
\* ConsentToTrack is rejected with a validation error naming the missing
\* field, and no upstream call is ever issued for it.
C3_ValidationBeforePost ==
    \A f \in {"EmailAddress", "ConsentToTrack"} :
        handler = "add_active_subscriber" /\ request.subscriber[f] = "absent" =>
            /\ calls = <<>>
            /\ inflight = {}
            /\ replies = <<>>
            /\ pc = "done"
            /\ response.kind = "error"
            /\ Names(response.detail, f)

C3_Witness ==
    /\ handler = "add_active_subscriber"
    /\ request.subscriber["EmailAddress"] = "absent"
    /\ request.subscriber["ConsentToTrack"] = "str"
    /\ pc = "done"
    /\ response.kind = "error"
    /\ calls = <<>>

---------------------------------------------------------------------------
(* C4 *)

---------------------------------------------------------------------------
(* C5 *)

\* C5: when both upstream calls of GetClient succeed with a client body C
\* that is a JSON object and a lists body L, the response is exactly
\* {basic_details: C.BasicDetails if present else {}, billing_details:
\* C.BillingDetails if present else {}, lists: L}; client body {} and lists
\* body [] yield {basic_details: {}, billing_details: {}, lists: []}.
C5_Merge ==
    /\ handler = "get_clients"
    /\ Len(replies) = 2
    /\ Is2xx(replies[1]) /\ Is2xx(replies[2])
    /\ json(replies[1].text).type = "dict"
    /\ json(replies[2].text).type # "none"
    => LET C == json(replies[1].text).items
           L == json(replies[2].text)
       IN /\ pc = "done"
          /\ response.kind = "ok"
          /\ response.status = 200
          /\ response.body =
                [basic_details |->
                    IF "BasicDetails" \in DOMAIN C THEN C["BasicDetails"] ELSE "{}",
                 billing_details |->
                    IF "BillingDetails" \in DOMAIN C THEN C["BillingDetails"] ELSE "{}",
                 lists |-> L]
          /\ replies[1].text = "{}" /\ replies[2].text = "[]" =>
                response.body =
                    [basic_details |-> "{}", billing_details |-> "{}",
                     lists |-> [type |-> "list", items |-> <<>>]]
          /\ replies[1].text = T_BasicNull =>
                response.body.basic_details = "null"

C5_Witness ==
    /\ handler = "get_clients"
    /\ pc = "done"
    /\ Len(replies) = 2
    /\ Is2xx(replies[1]) /\ Is2xx(replies[2])
    /\ replies[1].text = "{}"
    /\ replies[2].text = "[]"
    /\ response.kind = "ok"

---------------------------------------------------------------------------
(* C6 *)

---------------------------------------------------------------------------
(* C7 *)

\* C7: in RemoveSubscriber and UpdateSubscriber the list id and the e-mail
\* embedded in the upstream URL equal one percent-decoding of the path
\* segments as the caller sent them.
C7_DecodedOnce ==
    handler \in DecodingPathHandlers /\ calls # <<>> =>
        \E prefix \in {<<base, "/", "subscribers/">>, <<base, "subscribers/">>} :
            calls[1].url = prefix \o unquote(request.id) \o <<".json?email=">>
                                  \o unquote(request.email)

---------------------------------------------------------------------------
(* C8 *)

\* C8: in GetClient and GetListDetails the upstream calls are issued in a
\* fixed order (client before lists; list details before active subscribers),
\* the second only after the first call's response has been received: a
\* request never has two upstream calls in flight.
C8_Sequential ==
    /\ Cardinality(inflight) <= 1
    /\ Len(calls) <= Len(replies) + 1
    /\ handler = "get_clients" =>
          LET id == unquote(request.id) IN
          /\ Len(calls) >= 1 =>
                calls[1] = [method |-> "GET", payload |-> NoPayload,
                            url |-> <<base, "/", "clients/">> \o id \o <<".json">>]
          /\ Len(calls) >= 2 =>
                calls[2] = [method |-> "GET", payload |-> NoPayload,
                            url |-> <<base, "/", "clients/">> \o id
                                        \o <<"/lists.json">>]
    /\ handler = "get_list_details" =>
          LET id == unquote(request.id) IN
          /\ Len(calls) >= 1 =>
                calls[1] = [method |-> "GET", payload |-> NoPayload,
                            url |-> <<base, "/", "lists/">> \o id \o <<".json">>]
          /\ Len(calls) >= 2 =>
                calls[2] = [method |-> "GET", payload |-> NoPayload,
                            url |-> <<base, "/", "lists/">> \o id \o
                                <<"/active.json?&includetrackingpreference=true&includesmspreference=true">>]

C8_Witness ==
    /\ handler = "get_clients"
    /\ pc = "await2"
    /\ Len(calls) = 2
    /\ Len(replies) = 1
    /\ Cardinality(inflight) = 1
    /\ calls[2] \in inflight

---------------------------------------------------------------------------
(* C9 *)

\* C9: once an upstream call of a request has failed (non-2xx or transport
\* failure), the request issues no further upstream call and its response is
\* an error, never a success body; a request issues at most 2 upstream calls
\* in GetClient and GetListDetails and at most 1 in the other handlers.
C9_FailureTerminal ==
    /\ \A i \in 1..Len(replies) :
          replies[i].kind = "transport" \/ IsNon2xx(replies[i]) =>
              /\ Len(calls) = i
              /\ Len(replies) = i
              /\ inflight = {}
              /\ pc = "done"
              /\ response.kind = "error"
    /\ Len(calls) <= (IF handler \in TwoCallHandlers THEN 2 ELSE 1)

C9_Witness ==
    /\ handler = "get_clients"
    /\ pc = "done"
    /\ Len(calls) = 2
    /\ Len(replies) = 2
    /\ Is2xx(replies[1])
    /\ replies[1].text = T_Both
    /\ IsNon2xx(replies[2])
    /\ response.kind = "error"

---------------------------------------------------------------------------
(* C10 *)

\* C10: for the same base URL, list id and e-mail, UpdateSubscriber's PUT
\* targets the URL that RemoveSubscriber's DELETE targets: the base URL joined
\* with subscribers/{listId}.json?email={email} as the other handlers join it.
C10_SameUrl ==
    handler = "update_active_subscriber" /\ calls # <<>> =>
        LET l == unquote(PathParam(request.id))
            e == unquote(PathParam(request.email))
        IN /\ calls[1].url = remove_url(l, e)
           /\ calls[1].url = <<base, "/", "subscribers/">> \o l
                                \o <<".json?email=">> \o e

===========================================================================
